---- MODULE Spec2Model ----
(***************************************************************************)
(* Model of src/metadata_crawling.py: the YouTube Shorts crawler.          *)
(*                                                                         *)
(* main() drives one browser session through the feed: for each            *)
(* video_order in range(1, max_videos+1) it calls                          *)
(* fetch_dynamic_data_with_selenium (readiness wait, three DOM reads,      *)
(* current_url, static fetch), clicks the next-video button and appends    *)
(* the dictionary to video_metadata_list.  Any exception raised inside the *)
(* try block lands in the except handler, which clicks the button again    *)
(* and continues.  The browser, the DOM and the HTTP server are the        *)
(* environment: every call into them picks its result nondeterministically.*)
(***************************************************************************)
EXTENDS Integers, Sequences, FiniteSets, TLC

----------------------------------------------------------------------------
(* Bounds of the model *)

\* value passed for the max_videos parameter of main()
MaxVideos == 3

\* how often fetch_metadata_with_bs4 is run on the same answer and dictionary
MaxRuns == 2

----------------------------------------------------------------------------
(* Values *)

\* sentinel written for an absent meta tag (lines 43-59)
NA == "N/A"
\* soup.find(...) found no such tag
Absent == "<absent>"
\* soup.find(...) found a tag that has no content attribute
NoContent == "<no-content>"
\* return value of fetch_metadata_with_bs4 on a status other than 200
None == "<None>"

\* a Selenium call raised (NoSuchElementException, StaleElementReference...)
Raises == "<raises>"
\* driver.find_elements returned the empty list
EmptyList == "<empty>"

\* texts rendered in the like button, the comment button and the channel link
LikeTexts == {"1.2K"}
CommentTexts == {"34"}
UserTexts == {"@user"}

\* URLs the browser session can be showing
Urls == {"shorts/a", "shorts/b"}

\* contents of a meta tag
Contents == {"c"}

\* (dictionary key, meta tag key) in the order lines 42-59 look them up
MetaTags ==
  << [field |-> "title",       key |-> "og:title"],
     [field |-> "description", key |-> "og:description"],
     [field |-> "thumbnail",   key |-> "og:image"],
     [field |-> "publishedAt", key |-> "datePublished"],
     [field |-> "viewCount",   key |-> "interactionCount"] >>

TagKeys == {MetaTags[i].key : i \in 1..Len(MetaTags)}
StaticFields == {MetaTags[i].field : i \in 1..Len(MetaTags)}
DynamicFields == {"likeCount", "commentCount", "userName"}
AllFields == StaticFields \cup DynamicFields \cup {"currentUrl"}

\* HTML snapshots: every tag, no tag, only the title, and a title tag without
\* a content attribute
AllTags == [k \in TagKeys |-> "c"]
NoTags == [k \in TagKeys |-> Absent]
OnlyTitle == [k \in TagKeys |-> IF k = "og:title" THEN "c" ELSE Absent]
BareTitle == [k \in TagKeys |-> IF k = "og:title" THEN NoContent ELSE "c"]

\* snapshots the server answers with during a traversal
Htmls == {AllTags, NoTags, BareTitle}

\* HTTP status codes of the answer
Statuses == {200, 206, 404}

\* outcomes of requests.get: a transport-level exception, or a response
Responses ==
  {[raises |-> TRUE, status_code |-> 0, html |-> NoTags]}
  \cup {[raises |-> FALSE, status_code |-> s, html |-> NoTags] : s \in Statuses \ {200}}
  \cup {[raises |-> FALSE, status_code |-> 200, html |-> h] : h \in Htmls}

----------------------------------------------------------------------------
(* Dictionaries *)

EmptyDict == [k \in {} |-> ""]

\* variant of Put: a key that is already there keeps its value (setdefault)
Put_KeepExisting(d, k, v) ==
  [x \in (DOMAIN d) \cup {k} |-> IF x \in DOMAIN d THEN d[x] ELSE v]

\* d[k] = v of a Python dict
Put(d, k, v) == [x \in (DOMAIN d) \cup {k} |-> IF x = k THEN v ELSE d[x]]

----------------------------------------------------------------------------
(* fetch_metadata_with_bs4, lines 39-61: the five look-ups in order *)

RECURSIVE ParseFrom(_, _, _)
ParseFrom(i, html, md) ==
  IF i > Len(MetaTags) THEN [raised |-> FALSE, md |-> md]
  ELSE LET t == MetaTags[i]
           tag == html[t.key]
       IN  IF tag = Absent THEN ParseFrom(i + 1, html, Put(md, t.field, NA))
           ELSE IF tag = NoContent THEN [raised |-> TRUE, md |-> md]
           ELSE ParseFrom(i + 1, html, Put(md, t.field, tag))

\* variant of fetch_metadata_with_bs4: an answer that lacks one of the five
\* tags is treated like a failed fetch
fetch_metadata_with_bs4_Strict(response, video_metadata) ==
  IF response.raises
    THEN [raised |-> TRUE, ret |-> None, md |-> video_metadata]
  ELSE IF \/ response.status_code # 200
          \/ \E k \in TagKeys : response.html[k] = Absent
    THEN [raised |-> FALSE, ret |-> None, md |-> video_metadata]
  ELSE LET p == ParseFrom(1, response.html, video_metadata)
       IN  [raised |-> p.raised,
            ret |-> IF p.raised THEN None ELSE "video_metadata",
            md |-> p.md]

\* fetch_metadata_with_bs4(video_url, video_metadata) on the answer `response`:
\* raised = an exception leaves the function, ret = the returned value,
\* md = the dictionary afterwards (it is updated in place)
fetch_metadata_with_bs4(response, video_metadata) ==
  IF response.raises
    THEN [raised |-> TRUE, ret |-> None, md |-> video_metadata]
  ELSE IF response.status_code # 200
    THEN [raised |-> FALSE, ret |-> None, md |-> video_metadata]
  ELSE LET p == ParseFrom(1, response.html, video_metadata)
       IN  [raised |-> p.raised,
            ret |-> IF p.raised THEN None ELSE "video_metadata",
            md |-> p.md]

----------------------------------------------------------------------------
(* State *)

VARIABLES
  pc,                  \* position of main() in its code
  video_order,         \* loop variable of main()
  video_metadata,      \* dictionary of the current cycle
  video_metadata_list, \* result list
  driver,              \* browser session: "open" or "closed"
  browserUrl,          \* driver.current_url
  current_url,         \* local of fetch_dynamic_data_with_selenium
  feedPos,             \* item the feed shows: 1 + successful next-video clicks
  cyc,                 \* history: what happened in the current cycle
  appendedAt,          \* history: video_order of each appended record
  bs4                  \* fetch_metadata_with_bs4 called on its own: its
                       \* arguments and results

vars == <<pc, video_order, video_metadata, video_metadata_list, driver,
          browserUrl, current_url, feedPos, cyc, appendedAt, bs4>>

max_videos == MaxVideos

\* history record of a cycle that has not done anything yet
FreshCycle(pos) ==
  [pos |-> pos,          \* video_order of the cycle
   ready |-> "none",     \* readiness wait: "none", "ok", "timeout"
   metaPanel |-> FALSE,  \* the meta panel was present when the wait ended
   actionPanel |-> FALSE,\* the action panel was present when the wait ended
   reads |-> 0,          \* DOM fields read so far
   readFail |-> FALSE,   \* a DOM read raised
   fetch |-> "none",     \* static fetch: "none", "ok", "status" (not 200),
                         \* "raise" (requests.get raised), "keyerror"
   status |-> 0,         \* status code of the answer, 0 when there is none
   fetchUrl |-> "none",  \* URL handed to the static fetch
   urlAtFetch |-> "none",\* URL the session showed when the fetch was made
   readsAtFetch |-> 0,   \* DOM fields read when the static fetch was made
   navTry |-> 0,         \* next-video clicks attempted
   navOk |-> 0,          \* next-video clicks that succeeded
   caught |-> "none",    \* exception that entered the except handler
   appended |-> FALSE,   \* a record was appended
   feedAtStart |-> 0]    \* feedPos when the cycle started

\* no call of fetch_metadata_with_bs4 on its own
NoCall ==
  [response |-> [raises |-> TRUE, status_code |-> 0, html |-> NoTags],
   before |-> EmptyDict, runs |-> 0, raised |-> FALSE, ret |-> None,
   first |-> EmptyDict, firstRaised |-> FALSE, firstRet |-> None]

Init ==
  /\ bs4 = NoCall
  /\ pc = "for"
  /\ video_order = 1
  /\ video_metadata = EmptyDict
  /\ video_metadata_list = <<>>
  /\ driver = "open"
  /\ browserUrl \in Urls
  /\ current_url = "none"
  /\ feedPos = 1
  /\ cyc = FreshCycle(0)
  /\ appendedAt = <<>>

----------------------------------------------------------------------------
(* main(), lines 149-173 *)

\* variant of ForNext: the range runs one value too far
ForNext_OffByOne ==
  /\ pc = "for"
  /\ video_order <= max_videos + 1
  /\ video_metadata' = EmptyDict
  /\ current_url' = "none"
  /\ cyc' = [FreshCycle(video_order) EXCEPT !.feedAtStart = feedPos]
  /\ pc' = "wait"
  /\ UNCHANGED <<video_order, video_metadata_list, driver, browserUrl, feedPos,
                 appendedAt>>
  /\ UNCHANGED bs4

\* line 149-150: the for statement takes the next value of range(1, max_videos+1)
\* (video_order holds that value from the end of the previous iteration on)
ForNext ==
  /\ pc = "for"
  /\ video_order <= max_videos
  /\ video_metadata' = EmptyDict
  /\ current_url' = "none"
  /\ cyc' = [FreshCycle(video_order) EXCEPT !.feedAtStart = feedPos]
  /\ pc' = "wait"
  /\ UNCHANGED <<video_order, video_metadata_list, driver, browserUrl, feedPos,
                 appendedAt>>
  /\ UNCHANGED bs4

\* line 149: range is exhausted, main() returns
ForExit ==
  /\ pc = "for"
  /\ video_order > max_videos
  /\ pc' = "done"
  /\ UNCHANGED <<video_order, video_metadata, video_metadata_list, driver,
                 browserUrl, current_url, feedPos, cyc, appendedAt>>
  /\ UNCHANGED bs4

\* variant of WaitReady: the wait returns instead of raising on a timeout
WaitReady_NoRaise ==
  /\ pc = "wait"
  /\ \E present \in BOOLEAN, action \in BOOLEAN :
       /\ pc' = "like"
       /\ cyc' = [cyc EXCEPT !.ready = IF present THEN "ok" ELSE "timeout",
                             !.metaPanel = present, !.actionPanel = action]
  /\ UNCHANGED <<video_order, video_metadata, video_metadata_list, driver,
                 browserUrl, current_url, feedPos, appendedAt>>
  /\ UNCHANGED bs4

\* line 85: WebDriverWait(driver, 10).until(presence of the meta panel);
\* present = the meta panel is there before the 10 seconds are over,
\* action = the like/comment panel is there when the wait ends (not looked at)
WaitReady ==
  /\ pc = "wait"
  /\ \E present \in BOOLEAN, action \in BOOLEAN :
       IF present
         THEN /\ pc' = "like"
              /\ cyc' = [cyc EXCEPT !.ready = "ok", !.metaPanel = present,
                                    !.actionPanel = action]
         ELSE /\ pc' = "except"
              /\ cyc' = [cyc EXCEPT !.ready = "timeout", !.caught = "Timeout",
                                    !.metaPanel = present,
                                    !.actionPanel = action]
  /\ UNCHANGED <<video_order, video_metadata, video_metadata_list, driver,
                 browserUrl, current_url, feedPos, appendedAt>>
  /\ UNCHANGED bs4

\* variant of ReadLike: the URL and the static fetch come right after the like
\* count, before the other DOM reads
ReadLike_ThenFetch ==
  /\ pc = "like"
  /\ \E r \in LikeTexts \cup {Raises} :
       IF r = Raises
         THEN /\ pc' = "except"
              /\ cyc' = [cyc EXCEPT !.readFail = TRUE, !.caught = "ElementRead"]
              /\ UNCHANGED video_metadata
         ELSE /\ pc' = "url"
              /\ cyc' = [cyc EXCEPT !.reads = @ + 1]
              /\ video_metadata' = Put(video_metadata, "likeCount", r)
  /\ UNCHANGED <<video_order, video_metadata_list, driver, browserUrl,
                 current_url, feedPos, appendedAt>>
  /\ UNCHANGED bs4

\* lines 88-89: like_button = driver.find_element(...); likeCount = its text
ReadLike ==
  /\ pc = "like"
  /\ \E r \in LikeTexts \cup {Raises} :
       IF r = Raises
         THEN /\ pc' = "except"
              /\ cyc' = [cyc EXCEPT !.readFail = TRUE, !.caught = "ElementRead"]
              /\ UNCHANGED video_metadata
         ELSE /\ pc' = "comment"
              /\ cyc' = [cyc EXCEPT !.reads = @ + 1]
              /\ video_metadata' = Put(video_metadata, "likeCount", r)
  /\ UNCHANGED <<video_order, video_metadata_list, driver, browserUrl,
                 current_url, feedPos, appendedAt>>
  /\ UNCHANGED bs4

\* lines 92-93: comment_count = driver.find_element(...); commentCount = its text
ReadComment ==
  /\ pc = "comment"
  /\ \E r \in CommentTexts \cup {Raises} :
       IF r = Raises
         THEN /\ pc' = "except"
              /\ cyc' = [cyc EXCEPT !.readFail = TRUE, !.caught = "ElementRead"]
              /\ UNCHANGED video_metadata
         ELSE /\ pc' = "username"
              /\ cyc' = [cyc EXCEPT !.reads = @ + 1]
              /\ video_metadata' = Put(video_metadata, "commentCount", r)
  /\ UNCHANGED <<video_order, video_metadata_list, driver, browserUrl,
                 current_url, feedPos, appendedAt>>
  /\ UNCHANGED bs4

\* lines 96-102: username = driver.find_elements(first path); when the list is
\* empty, driver.find_element(second path)
ReadUsername ==
  /\ pc = "username"
  /\ \E first \in UserTexts \cup {EmptyList, Raises},
        second \in UserTexts \cup {Raises} :
       LET r == IF first = EmptyList THEN second ELSE first
       IN  IF r = Raises
             THEN /\ pc' = "except"
                  /\ cyc' = [cyc EXCEPT !.readFail = TRUE,
                                        !.caught = "ElementRead"]
                  /\ UNCHANGED video_metadata
             ELSE /\ pc' = "url"
                  /\ cyc' = [cyc EXCEPT !.reads = @ + 1]
                  /\ video_metadata' = Put(video_metadata, "userName", r)
  /\ UNCHANGED <<video_order, video_metadata_list, driver, browserUrl,
                 current_url, feedPos, appendedAt>>
  /\ UNCHANGED bs4

\* lines 105-106: current_url = driver.current_url; currentUrl = current_url
ReadCurrentUrl ==
  /\ pc = "url"
  /\ current_url' = browserUrl
  /\ video_metadata' = Put(video_metadata, "currentUrl", browserUrl)
  /\ pc' = "fetch"
  /\ UNCHANGED <<video_order, video_metadata_list, driver, browserUrl, feedPos,
                 cyc, appendedAt>>
  /\ UNCHANGED bs4

\* variant of StaticFetch: the URL handed to the static fetch is read from the
\* session again
StaticFetch_RereadUrl ==
  /\ pc = "fetch"
  /\ \E response \in Responses :
       LET r == fetch_metadata_with_bs4(response, video_metadata)
           how == IF response.raises THEN "raise"
                  ELSE IF r.raised THEN "keyerror"
                  ELSE IF r.ret = None THEN "status" ELSE "ok"
           c == [cyc EXCEPT !.fetch = how, !.fetchUrl = browserUrl,
                            !.status = response.status_code,
                            !.urlAtFetch = browserUrl,
                            !.readsAtFetch = cyc.reads]
       IN  /\ video_metadata' = r.md
           /\ IF r.raised
                THEN /\ pc' = "except"
                     /\ cyc' = [c EXCEPT !.caught = "Fetch"]
                ELSE /\ pc' = "click"
                     /\ cyc' = c
  /\ UNCHANGED <<video_order, video_metadata_list, driver, browserUrl,
                 current_url, feedPos, appendedAt>>
  /\ UNCHANGED bs4

\* line 109: fetch_metadata_with_bs4(current_url, video_metadata); the return
\* value is dropped, line 111 returns video_metadata
StaticFetch ==
  /\ pc = "fetch"
  /\ \E response \in Responses :
       LET r == fetch_metadata_with_bs4(response, video_metadata)
           how == IF response.raises THEN "raise"
                  ELSE IF r.raised THEN "keyerror"
                  ELSE IF r.ret = None THEN "status" ELSE "ok"
           c == [cyc EXCEPT !.fetch = how, !.fetchUrl = current_url,
                            !.status = response.status_code,
                            !.urlAtFetch = browserUrl,
                            !.readsAtFetch = cyc.reads]
       IN  /\ video_metadata' = r.md
           /\ IF r.raised
                THEN /\ pc' = "except"
                     /\ cyc' = [c EXCEPT !.caught = "Fetch"]
                ELSE /\ pc' = "click"
                     /\ cyc' = c
  /\ UNCHANGED <<video_order, video_metadata_list, driver, browserUrl,
                 current_url, feedPos, appendedAt>>
  /\ UNCHANGED bs4

\* variant of ClickNext: an exception is raised in the try block after the
\* click has succeeded
ClickNext_RaisesAfterClick ==
  /\ pc = "click"
  /\ \E ok \in BOOLEAN :
       IF ok
         THEN /\ pc' = "except"
              /\ feedPos' = feedPos + 1
              /\ browserUrl' \in Urls
              /\ cyc' = [cyc EXCEPT !.navTry = @ + 1, !.navOk = @ + 1,
                                    !.caught = "Navigation"]
         ELSE /\ pc' = "except"
              /\ cyc' = [cyc EXCEPT !.navTry = @ + 1, !.caught = "Navigation"]
              /\ UNCHANGED <<feedPos, browserUrl>>
  /\ UNCHANGED <<video_order, video_metadata, video_metadata_list, driver,
                 current_url, appendedAt>>
  /\ UNCHANGED bs4

\* lines 156-157 (try block): find the next-video button and click it
ClickNext ==
  /\ pc = "click"
  /\ \E ok \in BOOLEAN :
       IF ok
         THEN /\ pc' = "append"
              /\ feedPos' = feedPos + 1
              /\ browserUrl' \in Urls
              /\ cyc' = [cyc EXCEPT !.navTry = @ + 1, !.navOk = @ + 1]
         ELSE /\ pc' = "except"
              /\ cyc' = [cyc EXCEPT !.navTry = @ + 1, !.caught = "Navigation"]
              /\ UNCHANGED <<feedPos, browserUrl>>
  /\ UNCHANGED <<video_order, video_metadata, video_metadata_list, driver,
                 current_url, appendedAt>>
  /\ UNCHANGED bs4

\* variant of ExceptHandler: the handler continues without clicking
ExceptHandler_NoClick ==
  /\ pc = "except"
  /\ pc' = "for"
  /\ video_order' = video_order + 1
  /\ UNCHANGED <<video_metadata, video_metadata_list, driver, browserUrl,
                 current_url, feedPos, cyc, appendedAt>>
  /\ UNCHANGED bs4

\* variant of ExceptHandler: no continue, control falls through to line 167
ExceptHandler_FallThrough ==
  /\ pc = "except"
  /\ \E ok \in BOOLEAN :
       IF ok
         THEN /\ pc' = "append"
              /\ feedPos' = feedPos + 1
              /\ browserUrl' \in Urls
              /\ cyc' = [cyc EXCEPT !.navTry = @ + 1, !.navOk = @ + 1]
         ELSE /\ pc' = "crashed"
              /\ cyc' = [cyc EXCEPT !.navTry = @ + 1]
              /\ UNCHANGED <<feedPos, browserUrl>>
  /\ UNCHANGED <<video_order, video_metadata, video_metadata_list, driver,
                 current_url, appendedAt>>
  /\ UNCHANGED bs4

\* variant of ExceptHandler: a failed click in the handler is swallowed too
ExceptHandler_Swallow ==
  /\ pc = "except"
  /\ \E ok \in BOOLEAN :
       /\ pc' = "for"
       /\ video_order' = video_order + 1
       /\ IF ok
            THEN /\ feedPos' = feedPos + 1
                 /\ browserUrl' \in Urls
                 /\ cyc' = [cyc EXCEPT !.navTry = @ + 1, !.navOk = @ + 1]
            ELSE /\ cyc' = [cyc EXCEPT !.navTry = @ + 1]
                 /\ UNCHANGED <<feedPos, browserUrl>>
  /\ UNCHANGED <<video_metadata, video_metadata_list, driver, current_url,
                 appendedAt>>
  /\ UNCHANGED bs4

\* variant of ExceptHandler: after a skip the same video_order is taken again
ExceptHandler_SamePosition ==
  /\ pc = "except"
  /\ \E ok \in BOOLEAN :
       IF ok
         THEN /\ pc' = "for"
              /\ feedPos' = feedPos + 1
              /\ browserUrl' \in Urls
              /\ cyc' = [cyc EXCEPT !.navTry = @ + 1, !.navOk = @ + 1]
         ELSE /\ pc' = "crashed"
              /\ cyc' = [cyc EXCEPT !.navTry = @ + 1]
              /\ UNCHANGED <<feedPos, browserUrl>>
  /\ UNCHANGED <<video_order, video_metadata, video_metadata_list, driver,
                 current_url, appendedAt>>
  /\ UNCHANGED bs4

\* lines 160-165 (except clause): find the button and click it, then continue;
\* an exception raised here leaves main()
ExceptHandler ==
  /\ pc = "except"
  /\ \E ok \in BOOLEAN :
       IF ok
         THEN /\ pc' = "for"
              /\ video_order' = video_order + 1
              /\ feedPos' = feedPos + 1
              /\ browserUrl' \in Urls
              /\ cyc' = [cyc EXCEPT !.navTry = @ + 1, !.navOk = @ + 1]
         ELSE /\ pc' = "crashed"
              /\ cyc' = [cyc EXCEPT !.navTry = @ + 1]
              /\ UNCHANGED <<video_order, feedPos, browserUrl>>
  /\ UNCHANGED <<video_metadata, video_metadata_list, driver, current_url,
                 appendedAt>>
  /\ UNCHANGED bs4

\* variant of AppendRecord: the record is inserted at the front of the list
AppendRecord_Prepend ==
  /\ pc = "append"
  /\ video_metadata_list' = <<video_metadata>> \o video_metadata_list
  /\ appendedAt' = <<video_order>> \o appendedAt
  /\ cyc' = [cyc EXCEPT !.appended = TRUE]
  /\ video_order' = video_order + 1
  /\ pc' = "for"
  /\ UNCHANGED <<video_metadata, driver, browserUrl, current_url, feedPos>>
  /\ UNCHANGED bs4

\* lines 167-173: video_metadata_list.append(video_metadata), the prints, and
\* the end of the loop body
AppendRecord ==
  /\ pc = "append"
  /\ video_metadata_list' = Append(video_metadata_list, video_metadata)
  /\ appendedAt' = Append(appendedAt, video_order)
  /\ cyc' = [cyc EXCEPT !.appended = TRUE]
  /\ video_order' = video_order + 1
  /\ pc' = "for"
  /\ UNCHANGED <<video_metadata, driver, browserUrl, current_url, feedPos>>
  /\ UNCHANGED bs4

\* environment: the feed moves on by itself and the session shows another URL
\* (before line 105 is reached, or between line 105 and the fetch of line 109)
FeedAdvance ==
  /\ pc \in {"url", "fetch"}
  /\ browserUrl' \in Urls \ {browserUrl}
  /\ UNCHANGED <<pc, video_order, video_metadata, video_metadata_list, driver,
                 current_url, feedPos, cyc, appendedAt>>
  /\ UNCHANGED bs4

\* the steps of main()
MainStep ==
  \/ ForNext
  \/ ForExit
  \/ WaitReady
  \/ ReadLike
  \/ ReadComment
  \/ ReadUsername
  \/ ReadCurrentUrl
  \/ StaticFetch
  \/ ClickNext
  \/ ExceptHandler
  \/ AppendRecord

Next ==
  \/ MainStep
  \/ FeedAdvance

Spec == Init /\ [][Next]_vars

\* every call into the browser or the network returns (with a value or an
\* exception), so main() always takes its next step, however often the feed
\* moves in between
FairSpec == Spec /\ WF_vars(MainStep)

TypeOK ==
  /\ pc \in {"for", "wait", "like", "comment", "username", "url", "fetch",
             "click", "except", "append", "done", "crashed"}
  /\ video_order \in 1..(max_videos + 1)
  /\ DOMAIN video_metadata \subseteq AllFields
  /\ Len(video_metadata_list) <= max_videos
  /\ driver \in {"open", "closed"}
  /\ browserUrl \in Urls
  /\ feedPos \in 1..(max_videos + 1)

----------------------------------------------------------------------------
(* fetch_metadata_with_bs4 on its own, lines 12-61 *)

\* every HTML snapshot: each of the five tags is absent, present without a
\* content attribute, or present with content
AllHtmls == [TagKeys -> {Absent, NoContent} \cup Contents]

\* every outcome of requests.get
AllResponses ==
  {[raises |-> TRUE, status_code |-> 0, html |-> NoTags]}
  \cup {[raises |-> FALSE, status_code |-> st, html |-> AllTags] :
          st \in Statuses \ {200}}
  \cup {[raises |-> FALSE, status_code |-> 200, html |-> h] : h \in AllHtmls}

\* the dictionary as lines 89-106 leave it
DynamicDict ==
  [k \in DynamicFields \cup {"currentUrl"} |->
     IF k = "likeCount" THEN "1.2K"
     ELSE IF k = "commentCount" THEN "34"
     ELSE IF k = "userName" THEN "@user" ELSE "shorts/a"]

\* a dictionary that an earlier run on another page has populated
StaleDict == [k \in StaticFields |-> "old"]

\* dictionaries handed to the function
Befores == {EmptyDict, DynamicDict, StaleDict}

FetchInit ==
  /\ pc = "bs4"
  /\ \E response \in AllResponses, d \in Befores :
       /\ video_metadata = d
       /\ bs4 = [NoCall EXCEPT !.response = response, !.before = d]
  /\ video_order = 1
  /\ video_metadata_list = <<>>
  /\ driver = "open"
  /\ browserUrl = "shorts/a"
  /\ current_url = "shorts/a"
  /\ feedPos = 1
  /\ cyc = FreshCycle(0)
  /\ appendedAt = <<>>

\* one run of fetch_metadata_with_bs4(current_url, video_metadata) on the
\* answer bs4.response; the dictionary is updated in place
FetchCall ==
  /\ pc = "bs4"
  /\ bs4.runs < MaxRuns
  /\ LET r == fetch_metadata_with_bs4(bs4.response, video_metadata)
     IN  /\ video_metadata' = r.md
         /\ bs4' = IF bs4.runs = 0
                     THEN [bs4 EXCEPT !.runs = 1, !.raised = r.raised,
                                      !.ret = r.ret, !.first = r.md,
                                      !.firstRaised = r.raised,
                                      !.firstRet = r.ret]
                     ELSE [bs4 EXCEPT !.runs = @ + 1, !.raised = r.raised,
                                      !.ret = r.ret]
  /\ UNCHANGED <<pc, video_order, video_metadata_list, driver, browserUrl,
                 current_url, feedPos, cyc, appendedAt>>

FetchNext == FetchCall

FetchSpec == FetchInit /\ [][FetchNext]_vars

----------------------------------------------------------------------------
(* Vocabulary of the properties *)

\* the cycle of position cyc.pos has ended: the loop is back at the for
\* statement, has returned, or an exception has left main()
CycleOver == cyc.pos > 0 /\ pc \in {"for", "done", "crashed"}

\* terminal state of the extraction of the current cycle, read off the way
\* fetch_dynamic_data_with_selenium was left
Outcome ==
  IF cyc.caught = "Timeout" THEN "Skipped"
  ELSE IF cyc.caught \in {"ElementRead", "Fetch"} THEN "Failed"
  ELSE "Succeeded"

\* the static fetch failed: transport-level error or a status outside 2xx
FetchFailed ==
  \/ cyc.fetch = "raise"
  \/ cyc.fetch = "status" /\ cyc.status \notin 200..299

\* readiness reached, the three DOM fields read, the static fetch answered 200
\* and was parsed
ExtractionSucceeded ==
  cyc.ready = "ok" /\ cyc.reads = 3 /\ cyc.fetch = "ok"

\* indices of the records appended in the cycle of position pos
RecordsAt(pos) == {i \in 1..Len(appendedAt) : appendedAt[i] = pos}

----------------------------------------------------------------------------
(* Properties *)

\* C1: at every position where the static fetch fails (status outside 2xx or
\* transport error) the outcome is Failed, no record is appended for the
\* position, and the next-item navigation is still attempted.  (Stated for
\* the cycles in which no navigation click failed.)
C1_FetchFailureDiscards ==
  (CycleOver /\ FetchFailed /\ cyc.navTry = cyc.navOk) =>
    /\ Outcome = "Failed"
    /\ RecordsAt(cyc.pos) = {}
    /\ cyc.navTry >= 1

\* C2: at every position where readiness is reached, the three dynamic fields
\* are read and the static fetch succeeds, exactly one record is appended for
\* the position; it has all nine fields and "N/A" occurs at most in the five
\* static fields.  (Stated for the cycles after which the traversal goes on.)
C2_OneFullRecord ==
  (CycleOver /\ pc # "crashed" /\ ExtractionSucceeded) =>
    /\ Cardinality(RecordsAt(cyc.pos)) = 1
    /\ \A i \in RecordsAt(cyc.pos) :
         /\ DOMAIN video_metadata_list[i] = AllFields
         /\ \A f \in AllFields \ StaticFields : video_metadata_list[i][f] # NA

\* C3: a record whose extraction succeeded is in the result list once its
\* cycle has ended with the feed advanced, whatever happened to the next-item
\* navigation before (it is appended before the feed is advanced).
C3_PersistedDespiteNavigation ==
  (CycleOver /\ ExtractionSucceeded /\ cyc.navOk >= 1) => cyc.appended

\* C4 as stated: at every position where the readiness wait times out, no
\* record is appended, the next-item control is activated and the position
\* advances by exactly 1.
C4_TimeoutAlwaysAdvances ==
  (CycleOver /\ cyc.ready = "timeout") =>
    /\ Outcome = "Skipped"
    /\ RecordsAt(cyc.pos) = {}
    /\ cyc.navOk = 1
    /\ video_order = cyc.pos + 1
    /\ feedPos = cyc.feedAtStart + 1

\* C4 amended: at every position where the readiness wait times out, the
\* outcome is Skipped, no record is appended and the next-item control is
\* tried exactly once; when that click succeeds the position (and the feed)
\* advances by exactly 1, when it fails the traversal ends at this position.
C4_TimeoutSkips ==
  (CycleOver /\ cyc.ready = "timeout") =>
    /\ Outcome = "Skipped"
    /\ RecordsAt(cyc.pos) = {}
    /\ ~cyc.appended
    /\ cyc.navTry = 1
    /\ IF cyc.navOk = 1
         THEN /\ pc \in {"for", "done"}
              /\ video_order = cyc.pos + 1
              /\ feedPos = cyc.feedAtStart + 1
         ELSE /\ pc = "crashed"
              /\ cyc.navOk = 0
              /\ video_order = cyc.pos
              /\ feedPos = cyc.feedAtStart

C4_Witness ==
  /\ pc = "for"
  /\ cyc.ready = "timeout"
  /\ cyc.navOk = 1
  /\ video_order = cyc.pos + 1
  /\ Len(video_metadata_list) >= 1

\* C5: every record of the result list has the three DOM-sourced fields, and
\* a cycle in which a DOM read failed has outcome Failed and appended nothing.
C5_NoPartialRecord ==
  /\ \A i \in 1..Len(video_metadata_list) :
       DynamicFields \subseteq DOMAIN video_metadata_list[i]
  /\ cyc.readFail =>
       /\ Outcome = "Failed"
       /\ ~cyc.appended
       /\ RecordsAt(cyc.pos) = {}

C5_Witness ==
  /\ CycleOver
  /\ pc = "for"
  /\ cyc.readFail
  /\ cyc.reads = 2
  /\ Len(video_metadata_list) >= 1

\* C6: a cycle that has ended, whatever its outcome, has attempted the
\* next-item navigation.
C6_NavigationAlwaysAttempted ==
  CycleOver => cyc.navTry >= 1

C6_Witness ==
  /\ pc = "for"
  /\ cyc.pos > 0
  /\ Outcome = "Failed"
  /\ cyc.navTry = 1
  /\ video_order <= max_videos

C8_SessionReleased ==
  pc \in {"done", "crashed"} => driver = "closed"

\* C9: a traversal that ends before max_videos cycles ended on a navigation
\* failure; a readiness timeout gives the outcome Skipped, and a static fetch
\* error or an element read error gives the outcome Failed (the outcomes are
\* stated for the cycles in which no navigation click failed).
C9_OnlyNavigationIsFatal ==
  /\ pc = "crashed" => cyc.navTry > cyc.navOk
  /\ pc = "done" => cyc.pos = max_videos
  /\ (CycleOver /\ cyc.ready = "timeout" /\ cyc.navTry = cyc.navOk) =>
       Outcome = "Skipped"
  /\ (CycleOver /\ (cyc.readFail \/ FetchFailed) /\ cyc.navTry = cyc.navOk) =>
       Outcome = "Failed"

\* C10: the position starts at 1; cycles are started at 1, 2, 3, ... with no
\* repetition and no gap; the position never decreases and is incremented
\* exactly once by every cycle that returns to the for statement.
C10_PositionAdvancesByOne ==
  /\ video_order = 1
  /\ [](video_order = cyc.pos + (IF pc \in {"for", "done"} THEN 1 ELSE 0))
  /\ [][/\ video_order' \in {video_order, video_order + 1}
        /\ cyc'.pos \in {cyc.pos, cyc.pos + 1}
        /\ cyc'.pos = cyc.pos + 1 <=> pc = "for" /\ pc' = "wait"]_vars

C10_Witness ==
  /\ pc = "for"
  /\ video_order = 3
  /\ cyc.pos = 2
  /\ Outcome = "Skipped"
  /\ Len(video_metadata_list) = 1

\* C11: the result list has at most one record per processed position, the
\* positions of its records are strictly increasing, and a step either leaves
\* the list alone or adds one record at its end, keeping the earlier ones.
C11_AppendOnlyInOrder ==
  /\ [](/\ Len(appendedAt) = Len(video_metadata_list)
        /\ \A i, j \in 1..Len(appendedAt) : i < j => appendedAt[i] < appendedAt[j]
        /\ \A i \in 1..Len(appendedAt) : appendedAt[i] \in 1..cyc.pos)
  /\ [][\/ video_metadata_list' = video_metadata_list
        \/ /\ Len(video_metadata_list') = Len(video_metadata_list) + 1
           /\ SubSeq(video_metadata_list', 1, Len(video_metadata_list))
                = video_metadata_list
           /\ video_metadata_list'[Len(video_metadata_list')] = video_metadata
           /\ appendedAt'[Len(appendedAt')] = video_order]_vars

C11_Witness ==
  /\ Len(video_metadata_list) = 2
  /\ appendedAt = <<1, 3>>
  /\ video_metadata_list[1] # video_metadata_list[2]

C13_NavigatedExactlyOnce ==
  CycleOver => cyc.navTry = 1

\* C14: extraction is entered only when the readiness wait found both the
\* uploader-metadata panel and the action panel present; a wait that ends
\* with either panel absent gives the outcome Skipped.
C14_BothPanelsBeforeExtraction ==
  /\ cyc.ready = "ok" => cyc.metaPanel /\ cyc.actionPanel
  /\ (/\ CycleOver
      /\ cyc.ready # "none"
      /\ ~(cyc.metaPanel /\ cyc.actionPanel)
      /\ cyc.navTry = cyc.navOk) => Outcome = "Skipped"

Expected(html, i) ==
  IF html[MetaTags[i].key] = Absent THEN NA ELSE html[MetaTags[i].key]

\* the five fields of the dictionary are what the snapshot says, the other keys
\* are as before
FieldsFromTags ==
  /\ ~bs4.raised
  /\ bs4.ret # None
  /\ DOMAIN video_metadata = DOMAIN bs4.before \cup StaticFields
  /\ \A i \in 1..Len(MetaTags) :
       video_metadata[MetaTags[i].field] = Expected(bs4.response.html, i)
  /\ \A k \in DOMAIN bs4.before \ StaticFields :
       video_metadata[k] = bs4.before[k]

\* no tag of the snapshot lacks its content attribute
TagsHaveContent == \A k \in TagKeys : bs4.response.html[k] # NoContent

C17_FetchIdempotent ==
  /\ bs4.runs >= 2 =>
       /\ video_metadata = bs4.first
       /\ bs4.raised = bs4.firstRaised
       /\ bs4.ret = bs4.firstRet
  /\ (bs4.runs >= 1 /\ ~bs4.raised /\ bs4.ret # None) =>
       \A f \in StaticFields :
         video_metadata[f]
           = fetch_metadata_with_bs4(bs4.response, EmptyDict).md[f]

C17_Witness ==
  /\ bs4.runs = 2
  /\ bs4.before = StaleDict
  /\ bs4.response.status_code = 200
  /\ bs4.response.html = OnlyTitle
  /\ ~bs4.raised
  /\ video_metadata["title"] = "c"
  /\ video_metadata["description"] = NA

\* C18: the feed and the loop index stay in lock-step: at the for statement
\* and at the end of the traversal the feed shows item video_order, every
\* completed cycle made exactly one successful click, and the except clause
\* is entered only when no click of the cycle has succeeded.
C18_FeedInLockStep ==
  /\ feedPos = video_order + (IF pc = "append" THEN 1 ELSE 0)
  /\ cyc.navOk <= 1
  /\ pc = "except" => cyc.navOk = 0
  /\ (pc \in {"for", "done"} /\ cyc.pos > 0) =>
       /\ cyc.navOk = 1
       /\ feedPos = cyc.feedAtStart + 1

C18_Witness ==
  /\ pc = "for"
  /\ video_order = 3
  /\ feedPos = 3
  /\ cyc.navTry = 2
  /\ cyc.navOk = 1

\* C19: the currentUrl of the record a cycle appends is the URL that the
\* cycle handed to the static fetch: the session URL is read once, into
\* current_url, and both uses take it from there.
C19_UrlReadOnce ==
  /\ cyc.fetch # "none" =>
       /\ cyc.fetchUrl = current_url
       /\ video_metadata["currentUrl"] = cyc.fetchUrl
  /\ cyc.appended =>
       video_metadata_list[Len(video_metadata_list)]["currentUrl"]
         = cyc.fetchUrl
  /\ \A i \in 1..Len(video_metadata_list) :
       "currentUrl" \in DOMAIN video_metadata_list[i]

C19_Witness ==
  /\ cyc.appended
  /\ cyc.fetch = "ok"
  /\ cyc.urlAtFetch # cyc.fetchUrl
  /\ video_metadata_list[Len(video_metadata_list)]["currentUrl"] = cyc.fetchUrl

====
